---- MODULE Spec2Model ----
(***************************************************************************)
(* uuid2bin: the MySQL/MariaDB UDFs IS_UUID, UUID_TO_BIN and BIN_TO_UUID   *)
(* of src/src/uuid2bin.cc, and the host's calls of their entry points.     *)
(*                                                                         *)
(* Memory is raw bytes (0..255).  A buffer is a function over 0..n-1, so   *)
(* that indices are the C indices.  A `char` loaded from memory is the     *)
(* byte itself where plain char is unsigned and byte-256 for bytes >= 128  *)
(* where it is signed; the build decides, and the model carries both.      *)
(***************************************************************************)
EXTENDS Integers, FiniteSets, Sequences, TLC

\* ------------------------------------------------------------------ bounds
NumSamples == 4      \* sample 16-byte values 0..NumSamples-1
MaxBinLen  == 17     \* binary arguments of every length 0..MaxBinLen

\* --------------------------------------------------------------- constants
UuidLen    == 16     \* char uuid[16]
TextLen    == 36     \* char out[36]
Len32      == 32
Len36      == 36
Len38      == 38
LowerBit   == 32     \* c |= 32
ByteMod    == 256
Unwritten  == 0 - 1  \* a cell of the caller's buffer no callee has stored to
NULL       == "NULL"

STRING_RESULT == "STRING_RESULT"
INT_RESULT    == "INT_RESULT"

\* character codes of the literals the source compares with
Ch0      == 48
Ch9      == 57
ChA      == 97       \* 'a'
ChF      == 102      \* 'f'
ChDash   == 45
ChLBrace == 123
ChRBrace == 125

\* ------------------------------------------------------------- char <-> byte
\* load of a char object from memory
AsChar(b, sgn) == IF sgn /\ b >= 128 THEN b - ByteMod ELSE b
\* store of an int/char value into a char object
ToByte(v) == v % ByteMod

\* c | 32 on the int the char promotes to (two's complement)
OrLower(c) == IF (c \div LowerBit) % 2 = 0 THEN c + LowerBit ELSE c

\* hexchar_to_int without the fold to lowercase
hexchar_to_int_nofold(c) ==
    IF c >= Ch0 /\ c <= Ch9 THEN c - Ch0
    ELSE IF c >= ChA /\ c <= ChF THEN c - ChA + 10 ELSE 0 - 1

\* hexchar_to_int giving a letter its offset from 'a' without the 10
hexchar_to_int_no_ten(c) ==
    IF c >= Ch0 /\ c <= Ch9 THEN c - Ch0
    ELSE LET lc == OrLower(c)
         IN  IF lc >= ChA /\ lc <= ChF THEN lc - ChA ELSE 0 - 1

hexchar_to_int(c) ==
    IF c >= Ch0 /\ c <= Ch9 THEN c - Ch0
    ELSE LET lc == OrLower(c)
         IN  IF lc >= ChA /\ lc <= ChF THEN lc - ChA + 10 ELSE 0 - 1

\* the digit table in capitals
hexdigits_upper == [n \in 0..15 |-> IF n < 10 THEN Ch0 + n ELSE 65 + (n - 10)]

\* static char hexdigits[] = "0123456789abcdef"
hexdigits == [n \in 0..15 |-> IF n < 10 THEN Ch0 + n ELSE ChA + (n - 10)]

\* memcpy(dst + d, src + s, n); the ranges never overlap in this program
Memcpy(dst, d, src, s, n) ==
    [i \in DOMAIN dst |-> IF i >= d /\ i < d + n THEN src[s + (i - d)] ELSE dst[i]]

\* ---------------------------------------------------------- swap / unswap
\* swap_ts turning the eight bytes end for end, as a change of byte order
swap_ts_end_for_end(uuid) ==
    [i \in DOMAIN uuid |-> IF i < 8 THEN uuid[7 - i] ELSE uuid[i]]

\* swap_ts without the copy of time_low kept aside
swap_ts_lost(uuid) ==
    LET u1 == Memcpy(uuid, 0, uuid, 6, 2)
        u2 == Memcpy(u1, 2, u1, 4, 2)
    IN  Memcpy(u2, 4, u2, 0, 4)

swap_ts(uuid) ==
    LET buf == Memcpy([i \in 0..3 |-> 0], 0, uuid, 0, 4)
        u1  == Memcpy(uuid, 0, uuid, 6, 2)
        u2  == Memcpy(u1, 2, u1, 4, 2)
    IN  Memcpy(u2, 4, buf, 0, 4)

\* unswap_ts moving the fields the way swap_ts does
unswap_ts_as_swap(uuid) ==
    LET buf == Memcpy([i \in 0..3 |-> 0], 0, uuid, 0, 4)
        u1  == Memcpy(uuid, 0, uuid, 6, 2)
        u2  == Memcpy(u1, 2, u1, 4, 2)
    IN  Memcpy(u2, 4, buf, 0, 4)

unswap_ts(uuid) ==
    LET buf == Memcpy([i \in 0..3 |-> 0], 0, uuid, 4, 4)
        u1  == Memcpy(uuid, 4, uuid, 2, 2)
        u2  == Memcpy(u1, 6, u1, 0, 2)
    IN  Memcpy(u2, 0, buf, 0, 4)

\* ------------------------------------------------------------- unhexlify
\* the switch (i) of the 36-character loop: is a dash due after pair i?
DashDue(i) == i \in {3, 5, 7, 9}

\* what one turn of the loop touched, added to what the later turns did:
\* rd the indices of str it read, wr the indices of uuid it wrote
Touched(r, rd, wr) == [r EXCEPT !.reads = @ \cup rd, !.writes = @ \cup wr]

\* One run of the for loop from pair i with the read pointer at index ptr of
\* str; dashed tells the 36-character loop from the 32-character one.  uuid is
\* the local buffer so far.  Returns the function's result, the buffer, where
\* ptr stopped, and the indices of str read and of uuid written.
RECURSIVE HexLoop(_, _, _, _, _, _)
HexLoop(str, ptr, i, uuid, dashed, sgn) ==
    IF i >= UuidLen
    THEN [ok |-> TRUE, uuid |-> uuid, ptr |-> ptr, reads |-> {}, writes |-> {}]
    ELSE LET upper == hexchar_to_int(AsChar(str[ptr], sgn))
             lower == hexchar_to_int(AsChar(str[ptr + 1], sgn))
         IN  IF upper < 0 \/ lower < 0
             THEN [ok |-> FALSE, uuid |-> uuid, ptr |-> ptr,
                   reads |-> {ptr, ptr + 1}, writes |-> {}]
             ELSE LET u2 == [uuid EXCEPT ![i] = ToByte(upper * 16 + lower)]
                      p2 == ptr + 2
                  IN  IF dashed /\ DashDue(i)
                      THEN IF AsChar(str[p2], sgn) # ChDash
                           THEN [ok |-> FALSE, uuid |-> u2, ptr |-> p2,
                                 reads |-> {ptr, ptr + 1, p2}, writes |-> {i}]
                           ELSE Touched(HexLoop(str, p2 + 1, i + 1, u2, dashed, sgn),
                                        {ptr, ptr + 1, p2}, {i})
                      ELSE Touched(HexLoop(str, p2, i + 1, u2, dashed, sgn),
                                   {ptr, ptr + 1}, {i})

\* the indices the test for the braces reads: length == 38 && str[0] == '{'
\* && str[37] == '}' stops at the first operand that fails
BraceReads(str, length, sgn) ==
    IF length # Len38 THEN {}
    ELSE IF AsChar(str[0], sgn) # ChLBrace THEN {0}
    ELSE {0, 37}

\* uuid_unhexlify taking a 38-character text for braced without looking at
\* its first and last character
uuid_unhexlify_braces_unchecked(str, length, uuid, sgn) ==
    IF length = Len32
    THEN [start |-> 0] @@ HexLoop(str, 0, 0, uuid, FALSE, sgn)
    ELSE LET braced == length = Len38
             start  == IF braced THEN 1 ELSE 0
             len2   == IF braced THEN length - 2 ELSE length
         IN  IF len2 = Len36
             THEN [start |-> start] @@ HexLoop(str, start, 0, uuid, TRUE, sgn)
             ELSE [start |-> start, ok |-> FALSE, uuid |-> uuid, ptr |-> start,
                   reads |-> {}, writes |-> {}]

\* bool uuid_unhexlify(const char *str, int length, char uuid[16])
\* start is the index of the original str the scan began at
uuid_unhexlify(str, length, uuid, sgn) ==
    IF length = Len32
    THEN [start |-> 0] @@ HexLoop(str, 0, 0, uuid, FALSE, sgn)
    ELSE LET braced == length = Len38 /\ AsChar(str[0], sgn) = ChLBrace
                                      /\ AsChar(str[37], sgn) = ChRBrace
             start  == IF braced THEN 1 ELSE 0
             len2   == IF braced THEN length - 2 ELSE length
             seen   == BraceReads(str, length, sgn)
         IN  IF len2 = Len36
             THEN [start |-> start]
                    @@ Touched(HexLoop(str, start, 0, uuid, TRUE, sgn), seen, {})
             ELSE [start |-> start, ok |-> FALSE, uuid |-> uuid, ptr |-> start,
                   reads |-> seen, writes |-> {}]

\* --------------------------------------------------------------- hexlify
\* void uuid_hexlify(const char uuid[16], char out[36])
\* the dashes of uuid_hexlify one pair late
DashOut_late(i) == i \in {4, 6, 8, 10}

\* the switch (i) of uuid_hexlify: does a dash follow pair i?
DashOut(i) == i \in {3, 5, 7, 9}

\* (x >> 4) & 0x0f and x & 0x0f on the int the char promotes to
HighNibble(x) == (x \div 16) % 16
LowNibble(x)  == x % 16

RECURSIVE HexOut(_, _, _, _, _)
HexOut(uuid, i, j, out, sgn) ==
    IF i >= UuidLen THEN out
    ELSE LET c  == AsChar(uuid[i], sgn)
             o1 == [out EXCEPT ![j] = hexdigits[HighNibble(c)]]
             o2 == [o1 EXCEPT ![j + 1] = hexdigits[LowNibble(c)]]
         IN  IF DashOut(i)
             THEN HexOut(uuid, i + 1, j + 3, [o2 EXCEPT ![j + 2] = ChDash], sgn)
             ELSE HexOut(uuid, i + 1, j + 2, o2, sgn)

uuid_hexlify(uuid, out, sgn) == HexOut(uuid, 0, 0, out, sgn)

\* ------------------------------------------------------- host-side values
\* A pointer is null or designates an object: a byte buffer for a string
\* argument, the long long for an integer argument.
NullPtr     == [null |-> TRUE,  mem |-> <<>>]
PtrTo(m)    == [null |-> FALSE, mem |-> m]
LongLong(k) == [i \in 0..0 |-> k]

\* char data[16]: a local with indeterminate content until stored to
LocalData   == [i \in 0..(UuidLen - 1) |-> Unwritten]
\* the caller's result buffer (its first 36 bytes) and *length before a call
FreshResult == [i \in 0..(TextLen - 1) |-> Unwritten]

\* what a call leaves behind: the return value, the caller's result buffer
\* and *length, and the two indicators (which the host zeroes before a call)
Outcome(st, rv, res, len, nul, err) ==
    [status |-> st, ret |-> rv, result |-> res, length |-> len,
     is_null |-> nul, is_error |-> err]

\* UDF_ARGS
UdfArgs(n, types, ptrs, lens) ==
    [arg_count |-> n, arg_type |-> types, args |-> ptrs, lengths |-> lens]

\* the flag defaulting to true in the one-argument form
\* the flag read as "equal to 1" in place of "not zero"
SwapFlags_only_one(args) ==
    IF args.arg_count = 2
    THEN IF args.args[1].null THEN {"crash", "true", "false"}
         ELSE {IF args.args[1].mem[0] = 1 THEN "true" ELSE "false"}
    ELSE {"false"}

SwapFlags_default_true(args) ==
    IF args.arg_count = 2
    THEN IF args.args[1].null THEN {"crash", "true", "false"}
         ELSE {IF args.args[1].mem[0] # 0 THEN "true" ELSE "false"}
    ELSE {"true"}

\* *reinterpret_cast<long long*>(args->args[1]) converted to bool.  Through
\* a null pointer the read is undefined: the process dies, or the build goes
\* on with either flag value.
SwapFlags(args) ==
    IF args.arg_count = 2
    THEN IF args.args[1].null THEN {"crash", "true", "false"}
         ELSE {IF args.args[1].mem[0] # 0 THEN "true" ELSE "false"}
    ELSE {"false"}

Crashed == Outcome("crashed", NULL, FreshResult, Unwritten, 0, 0)

\* ------------------------------------------------------------ IS_UUID
is_uuid_init(args) ==
    IF args.arg_count # 1
    THEN [ret |-> 1, message |-> "IS_UUID requires one argument",
          const_item |-> Unwritten, maybe_null |-> Unwritten, max_length |-> Unwritten]
    ELSE [ret |-> 0, message |-> "",
          const_item |-> 1, maybe_null |-> Unwritten, max_length |-> Unwritten]

\* is_uuid reporting an argument of another type as an error
is_uuid_type_error(args, sgn) ==
    IF args.args[0].null
    THEN {Outcome("returned", 0, FreshResult, Unwritten, 1, 0)}
    ELSE IF args.arg_type[0] # STRING_RESULT
    THEN {Outcome("returned", 0, FreshResult, Unwritten, 0, 1)}
    ELSE LET r == uuid_unhexlify(args.args[0].mem, args.lengths[0], LocalData, sgn)
         IN  {Outcome("returned", IF r.ok THEN 1 ELSE 0, FreshResult, Unwritten, 0, 0)}

is_uuid(args, sgn) ==
    IF args.args[0].null
    THEN {Outcome("returned", 0, FreshResult, Unwritten, 1, 0)}
    ELSE IF args.arg_type[0] # STRING_RESULT
    THEN {Outcome("returned", 0, FreshResult, Unwritten, 0, 0)}
    ELSE LET r == uuid_unhexlify(args.args[0].mem, args.lengths[0], LocalData, sgn)
         IN  {Outcome("returned", IF r.ok THEN 1 ELSE 0, FreshResult, Unwritten, 0, 0)}

\* ------------------------------------------------------------ UUID_TO_BIN
\* uuid_to_bin_init without the test of the first argument's type
uuid_to_bin_init_any_first(args) ==
    IF args.arg_count < 1 \/ args.arg_count > 2
    THEN [ret |-> 1, message |-> "UUID_TO_BIN requires either one or two arguments",
          const_item |-> Unwritten, maybe_null |-> Unwritten, max_length |-> Unwritten]
    ELSE IF args.arg_count = 2 /\ args.arg_type[1] # INT_RESULT
    THEN [ret |-> 1, message |-> "UUID_TO_BIN requires second argument as integer",
          const_item |-> Unwritten, maybe_null |-> Unwritten, max_length |-> Unwritten]
    ELSE [ret |-> 0, message |-> "",
          const_item |-> 1, maybe_null |-> 1, max_length |-> 16]

uuid_to_bin_init(args) ==
    IF args.arg_count < 1 \/ args.arg_count > 2
    THEN [ret |-> 1, message |-> "UUID_TO_BIN requires either one or two arguments",
          const_item |-> Unwritten, maybe_null |-> Unwritten, max_length |-> Unwritten]
    ELSE IF args.arg_type[0] # STRING_RESULT
    THEN [ret |-> 1, message |-> "UUID_TO_BIN requires first argument as string",
          const_item |-> Unwritten, maybe_null |-> Unwritten, max_length |-> Unwritten]
    ELSE IF args.arg_count = 2 /\ args.arg_type[1] # INT_RESULT
    THEN [ret |-> 1, message |-> "UUID_TO_BIN requires second argument as integer",
          const_item |-> Unwritten, maybe_null |-> Unwritten, max_length |-> Unwritten]
    ELSE [ret |-> 0, message |-> "",
          const_item |-> 1, maybe_null |-> 1, max_length |-> 16]

\* uuid_to_bin parsing straight into the caller's buffer
UuidToBinTail_in_place(args, swap_flag, sgn) ==
    LET r == uuid_unhexlify(args.args[0].mem, args.lengths[0], LocalData, sgn)
    IN  IF ~r.ok
        THEN Outcome("returned", NULL, Memcpy(FreshResult, 0, r.uuid, 0, 16), Unwritten, 0, 1)
        ELSE LET data == IF swap_flag THEN swap_ts(r.uuid) ELSE r.uuid
             IN  Outcome("returned", "result",
                         Memcpy(FreshResult, 0, data, 0, 16), 16, 0, 0)

\* uuid_to_bin that never swaps
UuidToBinTail_noswap(args, swap_flag, sgn) ==
    LET r == uuid_unhexlify(args.args[0].mem, args.lengths[0], LocalData, sgn)
    IN  IF ~r.ok
        THEN Outcome("returned", NULL, FreshResult, Unwritten, 0, 1)
        ELSE Outcome("returned", "result",
                     Memcpy(FreshResult, 0, r.uuid, 0, 16), 16, 0, 0)

\* the rest of uuid_to_bin once swap_flag has its value
UuidToBinTail(args, swap_flag, sgn) ==
    LET r == uuid_unhexlify(args.args[0].mem, args.lengths[0], LocalData, sgn)
    IN  IF ~r.ok
        THEN Outcome("returned", NULL, FreshResult, Unwritten, 0, 1)
        ELSE LET data == IF swap_flag THEN swap_ts(r.uuid) ELSE r.uuid
             IN  Outcome("returned", "result",
                         Memcpy(FreshResult, 0, data, 0, 16), 16, 0, 0)

uuid_to_bin(args, sgn) ==
    IF args.args[0].null
    THEN {Outcome("returned", NULL, FreshResult, Unwritten, 1, 0)}
    ELSE {IF f = "crash" THEN Crashed ELSE UuidToBinTail(args, f = "true", sgn)
            : f \in SwapFlags(args)}

\* ------------------------------------------------------------ BIN_TO_UUID
bin_to_uuid_init(args) ==
    IF args.arg_count < 1 \/ args.arg_count > 2
    THEN [ret |-> 1, message |-> "BIN_TO_UUID requires either one or two arguments",
          const_item |-> Unwritten, maybe_null |-> Unwritten, max_length |-> Unwritten]
    ELSE IF args.arg_type[0] # STRING_RESULT
    THEN [ret |-> 1, message |-> "BIN_TO_UUID requires first argument as binary",
          const_item |-> Unwritten, maybe_null |-> Unwritten, max_length |-> Unwritten]
    ELSE IF args.arg_count = 2 /\ args.arg_type[1] # INT_RESULT
    THEN [ret |-> 1, message |-> "BIN_TO_UUID requires second argument as integer",
          const_item |-> Unwritten, maybe_null |-> Unwritten, max_length |-> Unwritten]
    ELSE [ret |-> 0, message |-> "",
          const_item |-> 0, maybe_null |-> 1, max_length |-> 36]

\* the rest of bin_to_uuid once swap_flag has its value
BinToUuidTail(args, swap_flag, sgn) ==
    LET data0 == Memcpy(LocalData, 0, args.args[0].mem, 0, 16)
        data  == IF swap_flag THEN unswap_ts(data0) ELSE data0
    IN  Outcome("returned", "result", uuid_hexlify(data, FreshResult, sgn), 36, 0, 0)

\* bin_to_uuid testing the length before the pointer
bin_to_uuid_length_first(args, sgn) ==
    IF args.lengths[0] # 16
    THEN {Outcome("returned", NULL, FreshResult, Unwritten, 0, 1)}
    ELSE IF args.args[0].null
    THEN {Outcome("returned", NULL, FreshResult, Unwritten, 1, 0)}
    ELSE {IF f = "crash" THEN Crashed ELSE BinToUuidTail(args, f = "true", sgn)
            : f \in SwapFlags(args)}

bin_to_uuid(args, sgn) ==
    IF args.args[0].null
    THEN {Outcome("returned", NULL, FreshResult, Unwritten, 1, 0)}
    ELSE IF args.lengths[0] # 16
    THEN {Outcome("returned", NULL, FreshResult, Unwritten, 0, 1)}
    ELSE {IF f = "crash" THEN Crashed ELSE BinToUuidTail(args, f = "true", sgn)
            : f \in SwapFlags(args)}

\* ------------------------------------------------------------ the inputs
\* Sample 16-byte values: 0 is all zero, 1 is the README's
\* 6ccd780c-baba-1026-9564-0040f4311e29, 2 begins abcdabcd-abcd-abcd (its
\* time fields read the same in either order), the rest spread over all
\* byte values.
ReadmeBytes ==
    [i \in 0..15 |-> <<108, 205, 120, 12, 186, 186, 16, 38,
                       149, 100, 0, 64, 244, 49, 30, 41>>[i + 1]]

SampleByte(k, i) ==
    IF k = 1 /\ i < 16 THEN ReadmeBytes[i]
    ELSE IF k = 2 /\ i < 8 THEN (IF i % 2 = 0 THEN 171 ELSE 205)
    ELSE (k * (i * 37 + 171)) % ByteMod

Sample(k, n) == [i \in 0..(n - 1) |-> SampleByte(k, i)]

Samples == 0..(NumSamples - 1)

\* the text of a nibble in a letter case
HexText(n, upper) ==
    IF n < 10 THEN 48 + n ELSE (IF upper THEN 65 ELSE 97) + (n - 10)

Nibble(bytes, h) ==
    IF h % 2 = 0 THEN bytes[h \div 2] \div 16 ELSE bytes[h \div 2] % 16

DashPos == {8, 13, 18, 23}

UpperAt(case, p) == case = "upper" \/ (case = "mixed" /\ p % 2 = 0)

\* the 36-character dashed text of a 16-byte value
Dashed(bytes, case) ==
    [p \in 0..35 |->
        IF p \in DashPos THEN ChDash
        ELSE HexText(Nibble(bytes, p - Cardinality({d \in DashPos : d < p})),
                     UpperAt(case, p))]

\* the text of a 16-byte value in one of the three forms
Render(bytes, form, case) ==
    IF form = 32
    THEN [p \in 0..31 |-> HexText(Nibble(bytes, p), UpperAt(case, p))]
    ELSE IF form = 36 THEN Dashed(bytes, case)
    ELSE [p \in 0..37 |-> IF p = 0 THEN ChLBrace
                          ELSE IF p = 37 THEN ChRBrace
                          ELSE Dashed(bytes, case)[p - 1]]

Forms == {32, 36, 38}
Cases == {"lower", "upper", "mixed"}

\* a string argument: the bytes and their count
Str(m, n) == [mem |-> m, len |-> n]

ValidTexts ==
    {Str(Render(Sample(k, 16), f, c), f) : k \in Samples, f \in Forms, c \in Cases}

\* one character of a valid text replaced: by a dash, a non-hex letter or a
\* hex digit anywhere, by the neighbours of the accepted ranges near the ends
Base(f) == Render(Sample(1, 16), f, "lower")
MutChars  == {ChDash, 71, 48}            \* '-', 'G', '0'
EdgeChars == {47, 58, 64, 96, 103, 225, 193, 0, ChLBrace, ChRBrace}
EdgePos(f) == {0, 1, 8, f - 1}
Mutated ==
    UNION {{Str([Base(f) EXCEPT ![p] = c], f) : p \in 0..(f - 1), c \in MutChars}
              \cup {Str([Base(f) EXCEPT ![p] = c], f) : p \in EdgePos(f), c \in EdgeChars}
           : f \in Forms}

\* a valid text cut short or run on
OddLens == {0, 1, 31, 33, 35, 37}
Resized ==
    {Str([p \in 0..(n - 1) |-> Base(38)[p]], n) : n \in OddLens}
        \cup {Str([p \in 0..(n - 1) |-> Base(36)[p]], n) : n \in {32, 34}}
        \cup {Str([p \in 0..(n - 1) |-> IF p < 32 THEN Base(32)[p] ELSE 48], n)
                : n \in {36, 38, 39}}

Texts == ValidTexts \cup Mutated \cup Resized

\* binary arguments: the samples, and one value of every other length
Binaries ==
    {Str(Sample(k, 16), 16) : k \in Samples}
        \cup {Str(Sample(1, n), n) : n \in 0..MaxBinLen}

\* the values of an integer argument
FlagValues == {0, 1, 2, 0 - 1}
IntValues  == {123}
\* the lengths a host may leave beside a null argument pointer
NullLens   == {0, 16}

\* ------------------------------------------------------------------ state
VARIABLES
    sgn,    \* is plain char signed in this build?
    ctx,    \* per function: what its _init was given and what it answered
    cur,    \* the call made last for the current row, with what it left
    prev    \* the call whose result is cur's first argument, if any

vars == <<sgn, ctx, cur, prev>>

Fns == {"is_uuid", "uuid_to_bin", "bin_to_uuid"}
ArgTypes == {STRING_RESULT, INT_RESULT}
MaxArgs == 3

NoInit == [ret |-> 0, message |-> "", const_item |-> Unwritten,
           maybe_null |-> Unwritten, max_length |-> Unwritten]
NoCtx  == [state |-> "none", arg_count |-> 0, arg_type |-> <<>>, init |-> NoInit]
NoCall == [fn |-> "none", args |-> UdfArgs(0, <<>>, <<>>, <<>>),
           out |-> Outcome("none", NULL, FreshResult, Unwritten, 0, 0)]

\* the argument shapes a statement can hand to an _init
Shapes ==
    UNION {{UdfArgs(n, t, [i \in 0..(n - 1) |-> NullPtr], [i \in 0..(n - 1) |-> 0])
              : t \in [0..(n - 1) -> ArgTypes]} : n \in 0..MaxArgs}

\* the host keeps the context of an accepted statement and its message
\* otherwise
CtxOf(shape, r) ==
    [state |-> IF r.ret = 0 THEN "ok" ELSE "failed",
     arg_count |-> shape.arg_count, arg_type |-> shape.arg_type, init |-> r]

Setup == cur = NoCall /\ prev = NoCall
Runnable(f) == ctx[f].state = "ok" /\ \A g \in Fns : ctx[g].state # "failed"

\* the values of a first argument of a given type, with their lengths
FirstArgs(type, strs) ==
    {[ptr |-> NullPtr, len |-> n] : n \in NullLens}
        \cup IF type = STRING_RESULT
             THEN {[ptr |-> PtrTo(t.mem), len |-> t.len] : t \in strs}
             ELSE {[ptr |-> PtrTo(LongLong(k)), len |-> 8] : k \in IntValues}

\* the values of a flag argument
FlagArgs == {NullPtr} \cup {PtrTo(LongLong(k)) : k \in FlagValues}

\* UDF_ARGS of a row call in context c
RowArgs(c, a0, p1) ==
    UdfArgs(c.arg_count, c.arg_type,
            [i \in 0..(c.arg_count - 1) |-> IF i = 0 THEN a0.ptr ELSE p1],
            [i \in 0..(c.arg_count - 1) |-> IF i = 0 THEN a0.len ELSE 8])

\* the value of a finished call as the argument of the enclosing call: SQL
\* NULL when the call set either indicator, else result[0 .. length-1]
Fed(o) ==
    IF o.is_null = 1 \/ o.is_error = 1 THEN [ptr |-> NullPtr, len |-> 0]
    ELSE [ptr |-> PtrTo([i \in 0..(o.length - 1) |-> o.result[i]]), len |-> o.length]

Init ==
    /\ sgn \in BOOLEAN
    /\ ctx = [f \in Fns |-> NoCtx]
    /\ cur = NoCall
    /\ prev = NoCall

\* ----------------------------------------------------------------- setup
IsUuidInit ==
    /\ Setup /\ ctx["is_uuid"].state = "none"
    /\ \E a \in Shapes : ctx' = [ctx EXCEPT !["is_uuid"] = CtxOf(a, is_uuid_init(a))]
    /\ UNCHANGED <<sgn, cur, prev>>

UuidToBinInit ==
    /\ Setup /\ ctx["uuid_to_bin"].state = "none"
    /\ \E a \in Shapes : ctx' = [ctx EXCEPT !["uuid_to_bin"] = CtxOf(a, uuid_to_bin_init(a))]
    /\ UNCHANGED <<sgn, cur, prev>>

BinToUuidInit ==
    /\ Setup /\ ctx["bin_to_uuid"].state = "none"
    /\ \E a \in Shapes : ctx' = [ctx EXCEPT !["bin_to_uuid"] = CtxOf(a, bin_to_uuid_init(a))]
    /\ UNCHANGED <<sgn, cur, prev>>

\* the _deinit functions touch nothing; the host drops the context
Deinit(f) ==
    /\ Setup /\ ctx[f].state = "ok"
    /\ ctx' = [ctx EXCEPT ![f] = NoCtx]
    /\ UNCHANGED <<sgn, cur, prev>>

IsUuidDeinit    == Deinit("is_uuid")
UuidToBinDeinit == Deinit("uuid_to_bin")
BinToUuidDeinit == Deinit("bin_to_uuid")

\* a statement whose _init returned 1 is refused with the message; no
\* _deinit is called for it
Refuse ==
    /\ \E f \in Fns : ctx[f].state = "failed" /\ ctx' = [ctx EXCEPT ![f] = NoCtx]
    /\ UNCHANGED <<sgn, cur, prev>>

\* ------------------------------------------------------------- row calls
Call(f, args, o) == [fn |-> f, args |-> args, out |-> o]

IsUuidRow ==
    /\ Setup /\ Runnable("is_uuid")
    /\ \E a0 \in FirstArgs(ctx["is_uuid"].arg_type[0], Texts) :
         LET args == RowArgs(ctx["is_uuid"], a0, NullPtr)
         IN  \E o \in is_uuid(args, sgn) : cur' = Call("is_uuid", args, o)
    /\ UNCHANGED <<sgn, ctx, prev>>

UuidToBinRow ==
    /\ Setup /\ Runnable("uuid_to_bin")
    /\ \E a0 \in FirstArgs(ctx["uuid_to_bin"].arg_type[0], Texts), p1 \in FlagArgs :
         LET args == RowArgs(ctx["uuid_to_bin"], a0, p1)
         IN  \E o \in uuid_to_bin(args, sgn) : cur' = Call("uuid_to_bin", args, o)
    /\ UNCHANGED <<sgn, ctx, prev>>

BinToUuidRow ==
    /\ Setup /\ Runnable("bin_to_uuid")
    /\ \E a0 \in FirstArgs(ctx["bin_to_uuid"].arg_type[0], Binaries), p1 \in FlagArgs :
         LET args == RowArgs(ctx["bin_to_uuid"], a0, p1)
         IN  \E o \in bin_to_uuid(args, sgn) : cur' = Call("bin_to_uuid", args, o)
    /\ UNCHANGED <<sgn, ctx, prev>>

\* F(G(...)): the enclosing call takes the value of the call just finished
Inner(g) == prev = NoCall /\ cur.fn = g /\ cur.out.status = "returned"

IsUuidNested ==
    /\ Inner("bin_to_uuid") /\ Runnable("is_uuid")
    /\ ctx["is_uuid"].arg_type[0] = STRING_RESULT
    /\ LET args == RowArgs(ctx["is_uuid"], Fed(cur.out), NullPtr)
       IN  \E o \in is_uuid(args, sgn) : cur' = Call("is_uuid", args, o)
    /\ prev' = cur
    /\ UNCHANGED <<sgn, ctx>>

UuidToBinNested ==
    /\ Inner("bin_to_uuid") /\ Runnable("uuid_to_bin")
    /\ \E p1 \in FlagArgs :
         LET args == RowArgs(ctx["uuid_to_bin"], Fed(cur.out), p1)
         IN  \E o \in uuid_to_bin(args, sgn) : cur' = Call("uuid_to_bin", args, o)
    /\ prev' = cur
    /\ UNCHANGED <<sgn, ctx>>

BinToUuidNested ==
    /\ Inner("uuid_to_bin") /\ Runnable("bin_to_uuid")
    /\ \E p1 \in FlagArgs :
         LET args == RowArgs(ctx["bin_to_uuid"], Fed(cur.out), p1)
         IN  \E o \in bin_to_uuid(args, sgn) : cur' = Call("bin_to_uuid", args, o)
    /\ prev' = cur
    /\ UNCHANGED <<sgn, ctx>>

\* the row is done; the host zeroes the indicators for the next one
NextRow ==
    /\ cur # NoCall /\ cur.out.status = "returned"
    /\ cur' = NoCall /\ prev' = NoCall
    /\ UNCHANGED <<sgn, ctx>>

Next ==
    \/ IsUuidInit \/ UuidToBinInit \/ BinToUuidInit
    \/ IsUuidDeinit \/ UuidToBinDeinit \/ BinToUuidDeinit
    \/ Refuse
    \/ IsUuidRow \/ UuidToBinRow \/ BinToUuidRow
    \/ IsUuidNested \/ UuidToBinNested \/ BinToUuidNested
    \/ NextRow

Spec == Init /\ [][Next]_vars

\* ============================================================ properties
\* The vocabulary of the specification, written from its text and not from
\* the code: the accepted forms and the canonical text.

IsHexCh(c) == c \in (48..57) \cup (65..70) \cup (97..102)
LowerCh(c) == IF c \in 65..70 THEN c + 32 ELSE c

\* 8-4-4-4-12 with dashes at character positions 8, 13, 18, 23 of m[off..]
IsDashedForm(m, off) ==
    \A p \in 0..35 : IF p \in {8, 13, 18, 23} THEN m[off + p] = 45
                                                ELSE IsHexCh(m[off + p])

IsValidText(m, n) ==
    \/ n = 32 /\ \A p \in 0..31 : IsHexCh(m[p])
    \/ n = 36 /\ IsDashedForm(m, 0)
    \/ n = 38 /\ m[0] = 123 /\ m[37] = 125 /\ IsDashedForm(m, 1)

\* the h-th hex digit of a valid text, dashes and braces skipped
DigitOf(m, n, h) ==
    IF n = 32 THEN m[h]
    ELSE LET skip == IF h < 8 THEN 0 ELSE IF h < 12 THEN 1 ELSE IF h < 16 THEN 2
                     ELSE IF h < 20 THEN 3 ELSE 4
         IN  m[h + skip + (IF n = 38 THEN 1 ELSE 0)]

\* the canonical text: lowercase, dashed, unbraced, same digits in order
Canonical(m, n) ==
    [p \in 0..35 |->
        IF p \in {8, 13, 18, 23} THEN 45
        ELSE LET before == IF p < 8 THEN 0 ELSE IF p < 13 THEN 1 ELSE IF p < 18 THEN 2
                           ELSE IF p < 23 THEN 3 ELSE 4
             IN  LowerCh(DigitOf(m, n, p - before))]

\* reading a call
Returned(c)   == c.out.status = "returned"
Present(c)    == ~c.args.args[0].null
TextArg(c)    == c.args.arg_type[0] = STRING_RESULT
ArgMem(c)     == c.args.args[0].mem
ArgLen(c)     == c.args.lengths[0]
ValidArg(c)   == Present(c) /\ TextArg(c) /\ IsValidText(ArgMem(c), ArgLen(c))
Succeeded(c)  == Returned(c) /\ c.out.ret = "result"
\* the call has a flag to read: none is passed, or the one passed is present
FlagReadable(c) == c.args.arg_count = 1 \/ ~c.args.args[1].null
\* the flag of a two-argument call is the integer k
FlagIs(c, k)  == c.args.arg_count = 2 /\ ~c.args.args[1].null /\ c.args.args[1].mem[0] = k
\* both calls were given the same flag s in {0, 1}, or both none
SameFlag(c, d) ==
    \/ c.args.arg_count = 1 /\ d.args.arg_count = 1
    \/ \E s \in {0, 1} : FlagIs(c, s) /\ FlagIs(d, s)
\* the first n bytes of the caller's result buffer
ResultBytes(c, n) == [i \in 0..(n - 1) |-> c.out.result[i]]

RoundTripText == cur.fn = "bin_to_uuid" /\ prev.fn = "uuid_to_bin"
RoundTripBin  == cur.fn = "uuid_to_bin" /\ prev.fn = "bin_to_uuid"

\* C1: for every valid text t in any of the three forms and letter cases and
\* every flag s in {0,1}, bin_to_uuid(uuid_to_bin(t, s), s) is the canonical
\* text of t: 36 characters, lowercase, dashed, unbraced, same digits.
C1_RoundTripCanonical ==
    (RoundTripText /\ ValidArg(prev) /\ SameFlag(prev, cur))
        => /\ Succeeded(cur)
           /\ cur.out.length = 36
           /\ cur.out.result = Canonical(ArgMem(prev), ArgLen(prev))

\* a braced text with capital letters went round with the flag set
C1_Witness ==
    /\ RoundTripText /\ ValidArg(prev) /\ FlagIs(prev, 1) /\ FlagIs(cur, 1)
    /\ ArgLen(prev) = 38 /\ \E p \in 1..36 : ArgMem(prev)[p] \in 65..70
    /\ Succeeded(cur)

\* the first 16 digits of a text are four times the same four digits: the
\* first eight bytes read the same in either field order
TimeFieldsAlike(m, n) ==
    \A h \in 0..11 : LowerCh(DigitOf(m, n, h)) = LowerCh(DigitOf(m, n, h + 4))

MismatchedTrip ==
    RoundTripText /\ ValidArg(prev) /\ FlagIs(prev, 1) /\ FlagIs(cur, 0)

\* C2 as stated: for every valid text t, bin_to_uuid(uuid_to_bin(t, 1), 0)
\* is not the canonical text of t.
C2_MismatchAlwaysDiffers ==
    MismatchedTrip => cur.out.result # Canonical(ArgMem(prev), ArgLen(prev))

\* C2 amended: bin_to_uuid(uuid_to_bin(t, 1), 0) succeeds, and it differs
\* from the canonical text of t exactly when the time fields of t are not
\* four repetitions of one 4-digit group.
C2_MismatchDiffersUnlessAlike ==
    MismatchedTrip
        => /\ Succeeded(cur)
           /\ (cur.out.result = Canonical(ArgMem(prev), ArgLen(prev)))
                 <=> TimeFieldsAlike(ArgMem(prev), ArgLen(prev))

\* a mismatched trip changed the text
C2_Witness ==
    /\ MismatchedTrip /\ ~TimeFieldsAlike(ArgMem(prev), ArgLen(prev))
    /\ Succeeded(cur)
    /\ cur.out.result # Canonical(ArgMem(prev), ArgLen(prev))

\* C3: for every 16-byte value b and flag s in {0,1},
\* uuid_to_bin(bin_to_uuid(b, s), s) succeeds and returns exactly b.
C3_BinaryRoundTrip ==
    (RoundTripBin /\ Present(prev) /\ ArgLen(prev) = 16 /\ SameFlag(prev, cur))
        => /\ Succeeded(cur)
           /\ cur.out.length = 16
           /\ ResultBytes(cur, 16) = ArgMem(prev)

\* a value with bytes above 127 went round with the flag set
C3_Witness ==
    /\ RoundTripBin /\ Present(prev) /\ ArgLen(prev) = 16
    /\ FlagIs(prev, 1) /\ FlagIs(cur, 1)
    /\ \E i \in 0..7 : ArgMem(prev)[i] >= 128
    /\ swap_ts(ArgMem(prev)) # ArgMem(prev)
    /\ Succeeded(cur)

\* C4: for a present text argument, is_uuid returns 1 exactly for the three
\* forms (32 hex; 36 with dashes at 8, 13, 18, 23; that in braces), in
\* either letter case, and 0 for every other string.
C4_IsUuidExactlyThreeForms ==
    (cur.fn = "is_uuid" /\ Present(cur) /\ TextArg(cur))
        => /\ Returned(cur)
           /\ cur.out.ret = (IF IsValidText(ArgMem(cur), ArgLen(cur)) THEN 1 ELSE 0)

\* is_uuid refused a 36-character text whose only fault is a hex digit in
\* place of a dash
C4_Witness ==
    /\ cur.fn = "is_uuid" /\ Present(cur) /\ TextArg(cur)
    /\ ArgLen(cur) = 36 /\ IsHexCh(ArgMem(cur)[13])
    /\ \A p \in 0..35 : p # 13 => (IsHexCh(ArgMem(cur)[p]) <=> p \notin {8, 18, 23})
    /\ cur.out.ret = 0

\* nothing reached the caller's result buffer or *length
NoOutput(c) == c.out.result = FreshResult /\ c.out.length = Unwritten

\* C5: is_uuid never signals an error: the null indicator is set exactly
\* when the argument is absent, whatever its declared type; a present
\* argument of another type and a present malformed string give 0; the error
\* indicator is never set.
C5_IsUuidNeverErrors ==
    cur.fn = "is_uuid"
        => /\ Returned(cur)
           /\ cur.out.is_error = 0
           /\ (cur.out.is_null = 1) <=> ~Present(cur)
           /\ (Present(cur) /\ ~TextArg(cur)) => cur.out.ret = 0
           /\ (Present(cur) /\ TextArg(cur) /\ ~IsValidText(ArgMem(cur), ArgLen(cur)))
                 => cur.out.ret = 0

\* is_uuid answered 0, with neither indicator set, to a present integer
C5_Witness ==
    /\ cur.fn = "is_uuid" /\ Present(cur) /\ cur.args.arg_type[0] = INT_RESULT
    /\ cur.out.ret = 0 /\ cur.out.is_null = 0 /\ cur.out.is_error = 0

\* C6: uuid_to_bin, whatever the flag's value, ends in exactly one of three
\* ways: null indicator and nothing else iff the text is absent; error
\* indicator iff the text is present and not of the three forms, with the
\* result buffer and length unwritten; otherwise exactly 16 bytes and
\* length 16.
C6_UuidToBinThreeOutcomes ==
    (cur.fn = "uuid_to_bin" /\ FlagReadable(cur))
        => /\ Returned(cur)
           /\ (cur.out.is_null = 1) <=> ~Present(cur)
           /\ (cur.out.is_error = 1)
                 <=> (Present(cur) /\ ~IsValidText(ArgMem(cur), ArgLen(cur)))
           /\ (cur.out.is_null = 1 \/ cur.out.is_error = 1)
                 => (cur.out.ret = NULL /\ NoOutput(cur))
           /\ (cur.out.is_null = 0 /\ cur.out.is_error = 0)
                 => /\ cur.out.ret = "result"
                    /\ cur.out.length = 16
                    /\ \A i \in 0..35 : IF i < 16 THEN cur.out.result[i] \in 0..255
                                                  ELSE cur.out.result[i] = Unwritten

\* uuid_to_bin failed on a text whose first pairs are good, and the
\* caller's buffer is as it was
C6_Witness ==
    /\ cur.fn = "uuid_to_bin" /\ FlagIs(cur, 1) /\ Present(cur)
    /\ ArgLen(cur) = 36 /\ \A p \in 0..7 : IsHexCh(ArgMem(cur)[p])
    /\ cur.out.is_error = 1 /\ NoOutput(cur)

\* C7: bin_to_uuid, whatever the flag's value, ends in exactly one of three
\* ways: null indicator iff the input is absent, tested before the length;
\* error indicator iff the input is present and not 16 bytes long, with the
\* result buffer and length unwritten; otherwise a text result.
C7_BinToUuidThreeOutcomes ==
    (cur.fn = "bin_to_uuid" /\ FlagReadable(cur))
        => /\ Returned(cur)
           /\ (cur.out.is_null = 1) <=> ~Present(cur)
           /\ (cur.out.is_error = 1) <=> (Present(cur) /\ ArgLen(cur) # 16)
           /\ (cur.out.is_null = 1 \/ cur.out.is_error = 1)
                 => (cur.out.ret = NULL /\ NoOutput(cur))
           /\ (cur.out.is_null = 0 /\ cur.out.is_error = 0)
                 => (cur.out.ret = "result" /\ cur.out.length = 36)

\* an absent input beside a length other than 16 came out null, not error
C7_Witness ==
    /\ cur.fn = "bin_to_uuid" /\ FlagReadable(cur)
    /\ ~Present(cur) /\ ArgLen(cur) # 16
    /\ cur.out.is_null = 1 /\ cur.out.is_error = 0

\* C8: every successful bin_to_uuid, for either flag and every 16 bytes,
\* gives exactly 36 characters: '-' at 8, 13, 18, 23 and a digit of
\* 0-9a-f everywhere else.
C8_TextShape ==
    (cur.fn = "bin_to_uuid" /\ Succeeded(cur))
        => /\ cur.out.length = 36
           /\ DOMAIN cur.out.result = 0..35
           /\ \A p \in 0..35 :
                 IF p \in {8, 13, 18, 23} THEN cur.out.result[p] = 45
                 ELSE cur.out.result[p] \in (48..57) \cup (97..102)

\* a value with a byte above 127 was formatted with the flag set
C8_Witness ==
    /\ cur.fn = "bin_to_uuid" /\ Succeeded(cur) /\ FlagIs(cur, 1)
    /\ \E i \in 0..15 : ArgMem(cur)[i] >= 128
    /\ cur.out.result[8] = 45

\* the 16-byte values the program held in this state: what uuid_to_bin
\* returned, what bin_to_uuid was given
HeldValues ==
    (IF cur.fn = "uuid_to_bin" /\ Succeeded(cur) THEN {ResultBytes(cur, 16)} ELSE {})
        \cup (IF cur.fn = "bin_to_uuid" /\ Present(cur) /\ ArgLen(cur) = 16
              THEN {ArgMem(cur)} ELSE {})

\* the value of a hex digit, either case
HexVal(c) == IF c <= 57 THEN c - 48 ELSE LowerCh(c) - 97 + 10

\* the 16 bytes a valid text spells, in text order
BytesOfText(m, n) ==
    [i \in 0..15 |-> 16 * HexVal(DigitOf(m, n, 2 * i)) + HexVal(DigitOf(m, n, 2 * i + 1))]

\* C9: swap_ts and unswap_ts are mutual inverses on every 16-byte value:
\* unswap_ts(swap_ts(b)) = b and swap_ts(unswap_ts(b)) = b; so the bytes
\* uuid_to_bin returns with the flag set unswap to the bytes the text spells.
C9_SwapUnswapInverse ==
    /\ \A b \in HeldValues : unswap_ts(swap_ts(b)) = b /\ swap_ts(unswap_ts(b)) = b
    /\ (cur.fn = "uuid_to_bin" /\ FlagIs(cur, 1) /\ Succeeded(cur))
          => unswap_ts(ResultBytes(cur, 16)) = BytesOfText(ArgMem(cur), ArgLen(cur))

\* uuid_to_bin returned bytes that swap_ts had moved
C9_Witness ==
    /\ cur.fn = "uuid_to_bin" /\ FlagIs(cur, 1) /\ Succeeded(cur)
    /\ ResultBytes(cur, 16) # BytesOfText(ArgMem(cur), ArgLen(cur))
    /\ unswap_ts(ResultBytes(cur, 16)) = BytesOfText(ArgMem(cur), ArgLen(cur))

\* the arguments of a one-argument call with the flag k added
WithFlag(a, k) ==
    UdfArgs(2, [i \in 0..1 |-> IF i = 0 THEN a.arg_type[0] ELSE INT_RESULT],
               [i \in 0..1 |-> IF i = 0 THEN a.args[0] ELSE PtrTo(LongLong(k))],
               [i \in 0..1 |-> IF i = 0 THEN a.lengths[0] ELSE 8])

\* the fields of the first eight bytes in the order time_hi, time_mid,
\* time_low, and back
Reordered(u) ==
    [i \in 0..15 |-> IF i < 2 THEN u[i + 6] ELSE IF i < 4 THEN u[i + 2]
                      ELSE IF i < 8 THEN u[i - 4] ELSE u[i]]
Restored(u) ==
    [i \in 0..15 |-> IF i < 4 THEN u[i + 4] ELSE IF i < 6 THEN u[i - 2]
                      ELSE IF i < 8 THEN u[i - 6] ELSE u[i]]

\* C10: the one-argument forms behave as the two-argument forms with flag
\* 0, in outcome and in bytes or text; with flag 0 the time fields are in
\* text order, with flag 1 they are reordered.
C10_DefaultFlagIsZero ==
    /\ (cur.fn = "uuid_to_bin" /\ cur.args.arg_count = 1)
          => uuid_to_bin(WithFlag(cur.args, 0), sgn) = {cur.out}
    /\ (cur.fn = "bin_to_uuid" /\ cur.args.arg_count = 1)
          => bin_to_uuid(WithFlag(cur.args, 0), sgn) = {cur.out}
    /\ (cur.fn = "uuid_to_bin" /\ Succeeded(cur) /\ FlagIs(cur, 0))
          => ResultBytes(cur, 16) = BytesOfText(ArgMem(cur), ArgLen(cur))
    /\ (cur.fn = "uuid_to_bin" /\ Succeeded(cur) /\ FlagIs(cur, 1))
          => ResultBytes(cur, 16) = Reordered(BytesOfText(ArgMem(cur), ArgLen(cur)))
    /\ (cur.fn = "bin_to_uuid" /\ Succeeded(cur) /\ FlagIs(cur, 0))
          => BytesOfText(cur.out.result, 36) = ArgMem(cur)
    /\ (cur.fn = "bin_to_uuid" /\ Succeeded(cur) /\ FlagIs(cur, 1))
          => BytesOfText(cur.out.result, 36) = Restored(ArgMem(cur))

\* a one-argument uuid_to_bin returned the bytes in text order where the
\* reordered bytes would have differed
C10_Witness ==
    /\ cur.fn = "uuid_to_bin" /\ cur.args.arg_count = 1 /\ Succeeded(cur)
    /\ ResultBytes(cur, 16) = BytesOfText(ArgMem(cur), ArgLen(cur))
    /\ Reordered(ResultBytes(cur, 16)) # ResultBytes(cur, 16)

\* the call was given no flag or the flag 0 / a flag other than 0
FlagClear(c) == c.args.arg_count = 1 \/ FlagIs(c, 0)
FlagSet(c)   == c.args.arg_count = 2 /\ ~c.args.args[1].null /\ c.args.args[1].mem[0] # 0

\* C11: on success with the flag clear, byte i of what uuid_to_bin returns
\* is 16*hi + lo of the i-th pair of hex digits of the text, letters in either
\* case, dashes and braces skipped, the same for the three forms; with the
\* flag set it is swap_ts of that value.
C11_BytesInTextOrder ==
    (cur.fn = "uuid_to_bin" /\ Succeeded(cur))
        => /\ FlagClear(cur)
                 => ResultBytes(cur, 16) = BytesOfText(ArgMem(cur), ArgLen(cur))
           /\ FlagSet(cur)
                 => ResultBytes(cur, 16) = swap_ts(BytesOfText(ArgMem(cur), ArgLen(cur)))

\* a braced text with capital letters was decoded with the flag clear, and
\* its first byte has a letter in each half
C11_Witness ==
    /\ cur.fn = "uuid_to_bin" /\ Succeeded(cur) /\ FlagIs(cur, 0)
    /\ ArgLen(cur) = 38 /\ ArgMem(cur)[1] \in 65..70 /\ ArgMem(cur)[2] \in 65..70
    /\ cur.out.result[0] = 16 * (ArgMem(cur)[1] - 55) + (ArgMem(cur)[2] - 55)

\* C12: swap_ts of u0..u15 is (u6,u7, u4,u5, u0,u1,u2,u3, u8..u15): time_hi
\* to bytes 0-1, time_mid to 2-3, time_low to 4-7, each field in its own
\* byte order, bytes 8..15 as they were; unswap_ts too changes bytes 0..7
\* only.
C12_SwapLayout ==
    \A u \in HeldValues :
        LET want == <<u[6], u[7], u[4], u[5], u[0], u[1], u[2], u[3],
                      u[8], u[9], u[10], u[11], u[12], u[13], u[14], u[15]>>
        IN  /\ DOMAIN swap_ts(u) = 0..15 /\ DOMAIN unswap_ts(u) = 0..15
            /\ \A i \in 0..15 : swap_ts(u)[i] = want[i + 1]
            /\ \A i \in 8..15 : unswap_ts(u)[i] = u[i]

\* bin_to_uuid with the flag set put the fields of a value back: the text
\* spells (u4..u7, u2,u3, u0,u1, u8..u15), which is not the value given
C12_Witness ==
    /\ cur.fn = "bin_to_uuid" /\ FlagIs(cur, 1) /\ Succeeded(cur)
    /\ BytesOfText(cur.out.result, 36) = Restored(ArgMem(cur))
    /\ Restored(ArgMem(cur)) # ArgMem(cur)
    /\ \E i \in 8..15 : ArgMem(cur)[i] # 0

\* what an _init was handed
Converters      == {"uuid_to_bin", "bin_to_uuid"}
BadCount(c)     == c.arg_count < 1 \/ c.arg_count > 2
BadFlagType(c)  == c.arg_count = 2 /\ c.arg_type[1] # INT_RESULT
NonTextFirst(c) == c.arg_count >= 1 /\ c.arg_type[0] # STRING_RESULT
FirstArgMessage(f) ==
    IF f = "uuid_to_bin" THEN "UUID_TO_BIN requires first argument as string"
                         ELSE "BIN_TO_UUID requires first argument as binary"

\* C13 as stated: a first argument that is not text is left to the call
\* (the decode error); the setup refuses only a wrong argument count and a
\* flag that is not an integer.
C13_SetupRefusesOnlyCountAndFlag ==
    \A f \in Converters :
        ctx[f].state # "none"
            => (ctx[f].state = "failed" <=> (BadCount(ctx[f]) \/ BadFlagType(ctx[f])))

\* C13 amended: the setup refuses a wrong argument count, a first argument
\* that is not text (with its own message) and a flag that is not an
\* integer, and nothing else; so no call of uuid_to_bin or bin_to_uuid is
\* given a first argument that is not text, and the error indicator of a
\* call always tells of a present text argument.
C13_SetupRefusesNonTextFirst ==
    /\ \A f \in Converters :
          ctx[f].state # "none"
              => /\ ctx[f].state = "failed"
                      <=> (BadCount(ctx[f]) \/ NonTextFirst(ctx[f]) \/ BadFlagType(ctx[f]))
                 /\ (~BadCount(ctx[f]) /\ NonTextFirst(ctx[f]))
                      => ctx[f].init.message = FirstArgMessage(f)
    /\ cur.fn \in Converters
          => /\ TextArg(cur)
             /\ cur.out.is_error = 1 => Present(cur)

\* uuid_to_bin_init refused a single integer argument with the message about
\* the first argument
C13_Witness ==
    /\ ctx["uuid_to_bin"].state = "failed"
    /\ ctx["uuid_to_bin"].arg_count = 1
    /\ ctx["uuid_to_bin"].arg_type[0] = INT_RESULT
    /\ ctx["uuid_to_bin"].init.ret = 1
    /\ ctx["uuid_to_bin"].init.message = "UUID_TO_BIN requires first argument as string"

\* the same call without the flag argument
OneArg(a) ==
    UdfArgs(1, [i \in 0..0 |-> a.arg_type[0]], [i \in 0..0 |-> a.args[0]],
               [i \in 0..0 |-> a.lengths[0]])

\* C14: a two-argument call whose flag is any integer k # 0 (2, -1, ...)
\* ends exactly as the call with flag 1 does, and on success handles the
\* reordered value; a call with flag 0 ends exactly as the one-argument call
\* does; and a successful call with k # 0 ends differently from the
\* one-argument call whenever the reordering changes the value.
C14_NonzeroFlagActsAsOne ==
    /\ (cur.fn = "uuid_to_bin" /\ FlagSet(cur))
          => /\ uuid_to_bin(WithFlag(cur.args, 1), sgn) = {cur.out}
             /\ Succeeded(cur)
                   => LET b == BytesOfText(ArgMem(cur), ArgLen(cur))
                      IN  /\ ResultBytes(cur, 16) = Reordered(b)
                          /\ Reordered(b) # b
                                => uuid_to_bin(OneArg(cur.args), sgn) # {cur.out}
    /\ (cur.fn = "bin_to_uuid" /\ FlagSet(cur))
          => /\ bin_to_uuid(WithFlag(cur.args, 1), sgn) = {cur.out}
             /\ Succeeded(cur)
                   => /\ BytesOfText(cur.out.result, 36) = Restored(ArgMem(cur))
                      /\ Restored(ArgMem(cur)) # ArgMem(cur)
                            => bin_to_uuid(OneArg(cur.args), sgn) # {cur.out}
    /\ (cur.fn = "uuid_to_bin" /\ FlagIs(cur, 0))
          => uuid_to_bin(OneArg(cur.args), sgn) = {cur.out}
    /\ (cur.fn = "bin_to_uuid" /\ FlagIs(cur, 0))
          => bin_to_uuid(OneArg(cur.args), sgn) = {cur.out}

\* uuid_to_bin was given the flag -1 and returned the reordered value, which
\* is not the value in text order
C14_Witness ==
    /\ cur.fn = "uuid_to_bin" /\ FlagIs(cur, 0 - 1) /\ Succeeded(cur)
    /\ ResultBytes(cur, 16) = Reordered(BytesOfText(ArgMem(cur), ArgLen(cur)))
    /\ ResultBytes(cur, 16) # BytesOfText(ArgMem(cur), ArgLen(cur))

\* C15 as stated: every call of uuid_to_bin or bin_to_uuid returns to the
\* host, and a two-argument call whose flag is SQL NULL ends as a null, an
\* error or a value, the first argument present or not.  (The read of the
\* flag at uuid2bin.cc:263 and :329 goes through the null pointer once the
\* first argument has passed its tests.)
C15_AbsentFlagEndsDefined ==
    cur.fn \in Converters
        => /\ Returned(cur)
           /\ (cur.args.arg_count = 2 /\ cur.args.args[1].null)
                 => \/ cur.out.ret = NULL /\ cur.out.is_null = 1 /\ cur.out.is_error = 0
                    \/ cur.out.ret = NULL /\ cur.out.is_error = 1
                    \/ cur.out.ret = "result"

\* the call reached its uuid_unhexlify: a present text argument, and the
\* call came back
Scanned(c) ==
    c.fn \in {"is_uuid", "uuid_to_bin"} /\ Returned(c) /\ Present(c) /\ TextArg(c)
\* the text of length 38 has '{' first and '}' last
InBraces(m, n) == n = 38 /\ m[0] = 123 /\ m[37] = 125

\* C16: uuid_unhexlify on a text of declared length n reads the text only at
\* indices 0 .. n-1 and writes only uuid[0] .. uuid[15]; for n not 32, 36 or
\* 38 it reads and writes nothing and fails; for n = 38 without both braces
\* it reads at most indices 0 and 37, writes nothing and fails; when it
\* succeeds it has read every index 0 .. n-1 and written all 16 bytes, the
\* 36-character scan having moved its pointer by exactly 36 from where it
\* began (32 for the undashed form).
C16_ScanStaysInside ==
    Scanned(cur)
        => LET n == ArgLen(cur)
               r == uuid_unhexlify(ArgMem(cur), n, LocalData, sgn)
           IN  /\ r.reads \subseteq 0..(n - 1)
               /\ r.writes \subseteq 0..15
               /\ n \notin {32, 36, 38}
                     => r.reads = {} /\ r.writes = {} /\ ~r.ok
               /\ (n = 38 /\ ~InBraces(ArgMem(cur), n))
                     => /\ r.reads \subseteq {0, 37} /\ 0 \in r.reads
                        /\ r.writes = {} /\ ~r.ok
               /\ r.ok
                     => /\ r.reads = 0..(n - 1) /\ r.writes = 0..15
                        /\ n \in {36, 38} => r.ptr - r.start = 36
                        /\ n = 32 => r.ptr - r.start = 32
                        /\ r.start = (IF n = 38 THEN 1 ELSE 0)
               /\ cur.fn = "is_uuid" => cur.out.ret = (IF r.ok THEN 1 ELSE 0)

\* is_uuid answered 0 for a 38-character text that opens with '{' and does
\* not close with '}': the scan read indices 0 and 37 and nothing else
C16_Witness ==
    /\ cur.fn = "is_uuid" /\ Scanned(cur) /\ cur.out.ret = 0
    /\ ArgLen(cur) = 38 /\ ArgMem(cur)[0] = 123 /\ ArgMem(cur)[37] # 125
    /\ uuid_unhexlify(ArgMem(cur), 38, LocalData, sgn).reads = {0, 37}

====
